---- MODULE Spec2Model ----
(***************************************************************************)
(* A model of reqwest-eventsource: the EventSource reconnecting stream     *)
(* (src/src/event_source.rs), its retry policies (src/src/retry.rs), and   *)
(* the EventsourceRequestBuilder stream (src/src/lib.rs).                   *)
(*                                                                         *)
(* Encodings.                                                              *)
(*   Option<T>      None is <<>>, Some(x) is <<x>>.                        *)
(*   String         a sequence of byte values ("42" is <<52, 50>>).        *)
(*   Duration       a natural number of milliseconds.                      *)
(*   f64 factor     a pair <<num, den>> standing for num / den.            *)
(*   Error          the name of the variant, the payload dropped.          *)
(***************************************************************************)
EXTENDS Integers, Sequences, FiniteSets, TLC

VARIABLES
    next_response,  \* Option<ResponseFuture>: Some(Request(Option<String>))
    cur_stream,     \* Option<EventStream>:    Some([last_event_id |-> String])
    delay,          \* Option<Delay>:          Some(duration)
    is_closed,      \* bool
    retry_policy,   \* BoxedRetry: a policy record, see ExponentialBackoff, Constant, Never
    last_event_id,  \* String
    last_retry,     \* Option<(usize, Duration)>
    last_call,      \* observation: the method called latest
    last_poll,      \* observation: what the latest poll_next call saw and returned
    last_ready_state, \* observation: what ready_state() returned, if it was the latest call
    wakers,         \* the sub-operations that hold the waker of the consumer's task
    awake,          \* whether the consumer's task is scheduled to poll
    delays,         \* observation: the delays scheduled since the last Open or new
    tracing,        \* observation switch: which of "delays", "output" are recorded
    body,           \* observation: the events the current body has yielded
    output          \* observation: the items poll_next has returned

vars == <<next_response, cur_stream, delay, is_closed, retry_policy,
          last_event_id, last_retry, last_call, last_poll, last_ready_state,
          wakers, awake, delays, tracing, body, output>>

----------------------------------------------------------------------------
(* Option *)

None == <<>>

Some(x) == <<x>>

IsSome(o) == o # <<>>

Unwrap(o) == o[1]

----------------------------------------------------------------------------
(* Bounds of the model *)

\* the longest run of consecutively scheduled retries that is explored
MaxDelays == 4

\* the most events one body yields while the output is recorded
MaxMessages == 2

\* the most items poll_next returns while the output is recorded
MaxOutput == 6

\* max_retries = Some(n) is explored for n in 0..MaxRetriesBound
MaxRetriesBound == 3

----------------------------------------------------------------------------
(* Errors: src/src/error.rs, and InvalidLastEventId of event_source.rs:154 *)

\* From<EventStreamError<ReqwestError>> for Error
ErrorFrom(err) ==
    CASE err = "Utf8" -> "Utf8"
      [] err = "Parser" -> "Parser"
      [] err = "Transport" -> "Transport"

EventStreamErrors == {"Utf8", "Parser", "Transport"}

----------------------------------------------------------------------------
(* Retry policies: src/src/retry.rs *)

\* default_should_retry taking every error for retryable
default_should_retry_any(error) == TRUE

default_should_retry(error) ==
    CASE error \in {"Utf8", "Parser", "InvalidStatusCode", "InvalidContentType"} -> FALSE
      [] error \in {"Transport", "StreamEnded"} -> TRUE

\* Duration::mul_f64, the product cut to a whole number of units
mul_f64(duration, factor) == (duration * factor[1]) \div factor[2]

Min(a, b) == IF a <= b THEN a ELSE b

ExponentialBackoff(start, factor, max_duration, max_retries) ==
    [kind |-> "ExponentialBackoff", start |-> start, factor |-> factor,
     max_duration |-> max_duration, max_retries |-> max_retries]

Constant(d, max_retries) ==
    [kind |-> "Constant", delay |-> d, max_retries |-> max_retries]

Never == [kind |-> "Never"]

\* a caller's own RetryPolicy: this one returns its delay for every error
AlwaysRetry(d) == [kind |-> "AlwaysRetry", delay |-> d]

DEFAULT_RETRY == ExponentialBackoff(300, <<2, 1>>, 5000, None)

\* Constant::retry not looking at max_retries
Constant_retry_unbounded(self, error, last) ==
    IF default_should_retry(error) THEN Some(self.delay) ELSE None

\* ExponentialBackoff::retry taking max_retries = None for no retry at all
ExponentialBackoff_retry_stops(self, error, last) ==
    IF ~default_should_retry(error) THEN None
    ELSE IF IsSome(last)
         THEN LET retry_num == Unwrap(last)[1]
                  last_duration == Unwrap(last)[2]
              IN  IF IsSome(self.max_retries) /\ retry_num < Unwrap(self.max_retries)
                  THEN Some(Min(mul_f64(last_duration, self.factor), self.max_duration))
                  ELSE None
         ELSE Some(self.start)

\* ExponentialBackoff::retry without the cap of max_duration
ExponentialBackoff_retry_uncapped(self, error, last) ==
    IF ~default_should_retry(error) THEN None
    ELSE IF IsSome(last)
         THEN LET retry_num == Unwrap(last)[1]
                  last_duration == Unwrap(last)[2]
              IN  IF self.max_retries = None \/ retry_num < Unwrap(self.max_retries)
                  THEN Some(mul_f64(last_duration, self.factor))
                  ELSE None
         ELSE Some(self.start)

ExponentialBackoff_retry(self, error, last) ==
    IF ~default_should_retry(error) THEN None
    ELSE IF IsSome(last)
         THEN LET retry_num == Unwrap(last)[1]
                  last_duration == Unwrap(last)[2]
              IN  IF self.max_retries = None \/ retry_num < Unwrap(self.max_retries)
                  THEN Some(Min(mul_f64(last_duration, self.factor), self.max_duration))
                  ELSE None
         ELSE Some(self.start)

Constant_retry(self, error, last) ==
    IF ~default_should_retry(error) THEN None
    ELSE IF IsSome(last)
         THEN LET retry_num == Unwrap(last)[1]
              IN  IF self.max_retries = None \/ retry_num < Unwrap(self.max_retries)
                  THEN Some(self.delay)
                  ELSE None
         ELSE Some(self.delay)

\* Never::retry answering like Constant with no delay
Never_retry_zero(self, error, last) ==
    IF default_should_retry(error) THEN Some(0) ELSE None

Never_retry(self, error, last) == None

AlwaysRetry_retry(self, error, last) == Some(self.delay)

\* dyn RetryPolicy: the call self.retry_policy.retry(error, last_retry)
retry(self, error, last) ==
    CASE self.kind = "ExponentialBackoff" -> ExponentialBackoff_retry(self, error, last)
      [] self.kind = "Constant" -> Constant_retry(self, error, last)
      [] self.kind = "Never" -> Never_retry(self, error, last)
      [] self.kind = "AlwaysRetry" -> AlwaysRetry_retry(self, error, last)

\* RetryPolicy::set_reconnection_time: the hint becomes the policy's base delay
set_reconnection_time(self, duration) ==
    CASE self.kind = "ExponentialBackoff" -> [self EXCEPT !.start = duration]
      [] self.kind = "Constant" -> [self EXCEPT !.delay = duration]
      [] OTHER -> self

----------------------------------------------------------------------------
(* The environment: what the request, the body and the header encoding    *)
(* can answer                                                              *)

\* last event ids: "", "42", "7" and "\x01" (no valid header value)
Ids == {<<>>, <<52, 50>>, <<55>>, <<1>>}

\* the retry field of a MessageEvent, Option<Duration>
RetryHints == {None, Some(1000)}

MessageEvents == [id : Ids, retry : RetryHints]

\* a content-type header value seen through HeaderValue::to_str and
\* str::parse::<Mime>: whether it is visible ASCII, and its type and subtype
\* when it parses
ContentTypes ==
    {[to_str |-> FALSE, mime |-> None],
     [to_str |-> TRUE, mime |-> None],
     [to_str |-> TRUE, mime |-> Some(<<"text", "event-stream">>)],
     [to_str |-> TRUE, mime |-> Some(<<"text", "plain">>)],
     [to_str |-> TRUE, mime |-> Some(<<"application", "event-stream">>)]}

Responses ==
    [status : {200, 404}, content_type : {None} \cup {Some(c) : c \in ContentTypes}]

\* Poll<Result<Response, ReqwestError>>
ResponseOutcomes ==
    {[tag |-> "Pending"], [tag |-> "Err"]} \cup {[tag |-> "Ok", res |-> r] : r \in Responses}

\* Poll<Option<Result<MessageEvent, EventStreamError<ReqwestError>>>>
StreamOutcomes(events) ==
    {[tag |-> "Pending"], [tag |-> "None"]}
        \cup {[tag |-> "Err", err |-> e] : e \in EventStreamErrors}
        \cup {[tag |-> "Ok", event |-> e] : e \in events}

\* HeaderValue::from_str: visible ASCII and tab only
HeaderValue_from_str(str) ==
    IF \A i \in 1..Len(str) : (str[i] >= 32 /\ str[i] < 127) \/ str[i] = 9
    THEN Some(str)
    ELSE None

\* the request sent: the Accept header, and last-event-id when it is attached
Request(last_event_id_header) ==
    [accept |-> "text/event-stream", last_event_id |-> last_event_id_header]

----------------------------------------------------------------------------
(* EventSource: src/src/event_source.rs.  The operations take the struct  *)
(* as a record `self` and return it changed.                               *)

EventSource_new ==
    [next_response |-> Some(Request(None)),
     cur_stream    |-> None,
     delay         |-> None,
     is_closed     |-> FALSE,
     retry_policy  |-> DEFAULT_RETRY,
     last_event_id |-> <<>>,
     last_retry    |-> None]

close(self) == [self EXCEPT !.is_closed = TRUE]

set_retry_policy(self, policy) == [self EXCEPT !.retry_policy = policy]

\* ready_state not looking at the delay
ready_state_without_delay(self) ==
    IF self.is_closed THEN "Closed"
    ELSE IF IsSome(self.next_response) THEN "Connecting"
    ELSE "Open"

ready_state(self) ==
    IF self.is_closed THEN "Closed"
    ELSE IF IsSome(self.delay) \/ IsSome(self.next_response) THEN "Connecting"
    ELSE "Open"

\* check_response judging the content type before the status
check_response_content_type_first(response) ==
    IF ~(/\ IsSome(response.content_type)
         /\ Unwrap(response.content_type).to_str
         /\ Unwrap(response.content_type).mime = Some(<<"text", "event-stream">>))
    THEN "InvalidContentType"
    ELSE IF response.status # 200 THEN "InvalidStatusCode"
    ELSE "Ok"

\* "Ok", or the Error
check_response(response) ==
    IF response.status # 200 THEN "InvalidStatusCode"
    ELSE IF response.content_type = None THEN "InvalidContentType"
    ELSE LET content_type == Unwrap(response.content_type)
         IN  IF ~content_type.to_str THEN "InvalidContentType"
             ELSE IF content_type.mime = None THEN "InvalidContentType"
             ELSE IF Unwrap(content_type.mime) # <<"text", "event-stream">>
                  THEN "InvalidContentType"
                  ELSE "Ok"

\* clear_fetch taking the request only
clear_fetch_request_only(self) == [self EXCEPT !.next_response = None]

clear_fetch(self) == [self EXCEPT !.next_response = None, !.cur_stream = None]

\* retry_fetch attaching last_event_id without encoding it
retry_fetch_unchecked(self) ==
    [result |-> "Ok",
     self |-> [self EXCEPT !.cur_stream = None,
                           !.next_response = Some(Request(Some(self.last_event_id)))]]

\* [result |-> "Ok" or the Error, self |-> the struct afterwards]
retry_fetch(self) ==
    LET s1 == [self EXCEPT !.cur_stream = None]
        value == HeaderValue_from_str(s1.last_event_id)
    IN  IF value = None
        THEN [result |-> "InvalidLastEventId", self |-> s1]
        ELSE [result |-> "Ok",
              self |-> [s1 EXCEPT !.next_response = Some(Request(Some(Unwrap(value))))]]

\* handle_response leaving last_retry as it is
handle_response_keep_retry(self, res) ==
    [self EXCEPT !.cur_stream = Some([last_event_id |-> self.last_event_id])]

handle_response(self, res) ==
    [self EXCEPT !.last_retry = None,
                 !.cur_stream = Some([last_event_id |-> self.last_event_id])]

\* handle_event not forwarding the retry hint
handle_event_drop_hint(self, event) == [self EXCEPT !.last_event_id = event.id]

handle_event(self, event) ==
    LET s1 == [self EXCEPT !.last_event_id = event.id]
    IN  IF IsSome(event.retry)
        THEN [s1 EXCEPT !.retry_policy = set_reconnection_time(@, Unwrap(event.retry))]
        ELSE s1

\* handle_error scheduling nothing and leaving the stream open
handle_error_forget(self, error) == clear_fetch(self)

\* handle_error sending the next request at once, with no delay
handle_error_reissue(self, error) ==
    [clear_fetch(self) EXCEPT !.next_response = Some(Request(None))]

handle_error(self, error) ==
    LET s1 == clear_fetch(self)
        retry_delay == retry(s1.retry_policy, error, s1.last_retry)
    IN  IF IsSome(retry_delay)
        THEN LET retry_num == IF IsSome(s1.last_retry) THEN Unwrap(s1.last_retry)[1] ELSE 1
             IN  [s1 EXCEPT !.last_retry = Some(<<retry_num, Unwrap(retry_delay)>>),
                            !.delay = Some(Unwrap(retry_delay))]
        ELSE [s1 EXCEPT !.is_closed = TRUE]

\* Poll<Option<Result<Event, Error>>>, and a panic of the call
Pending == [tag |-> "Pending"]

Ready_None == [tag |-> "None"]

Ready_Ok(event) == [tag |-> "Ok", event |-> event]

Ready_Err(error) == [tag |-> "Err", error |-> error]

Panic == [tag |-> "Panic"]

Event_Open == [tag |-> "Open"]

Event_Message(event) == [tag |-> "Message", event |-> event]

\* What a call of poll_next gives: the struct afterwards and the value
\* returned, and for the observations the request it issued (Option), the
\* sub-operations it polled and the arguments it gave the policy (Option).
Return(self, ret, issued, polled, policy_arg) ==
    [self |-> self, ret |-> ret, issued |-> issued, polled |-> polled,
     policy_arg |-> policy_arg]

PolicyArg(self, error) == Some([error |-> error, last_retry |-> self.last_retry])

\* the event cursor with a clean end of the body not reported
poll_stream_silent_end(self, item, issued, polled) ==
    LET p == polled \cup {"stream"}
    IN  CASE item.tag = "Err" ->
               Return(handle_error(self, ErrorFrom(item.err)),
                      Ready_Err(ErrorFrom(item.err)), issued, p,
                      PolicyArg(self, ErrorFrom(item.err)))
          [] item.tag = "Ok" ->
               Return(handle_event(self, item.event),
                      Ready_Ok(Event_Message(item.event)), issued, p, None)
          [] item.tag = "None" ->
               Return(handle_error(self, "StreamEnded"), Pending, issued, p,
                      PolicyArg(self, "StreamEnded"))
          [] item.tag = "Pending" ->
               Return(self, Pending, issued, p, None)

\* poll_next, lines 247-270: the event cursor
poll_stream(self, item, issued, polled) ==
    IF self.cur_stream = None
    THEN Return(self, Panic, issued, polled, None)
    ELSE LET p == polled \cup {"stream"}
         IN  CASE item.tag = "Err" ->
                    LET err == ErrorFrom(item.err)
                    IN  Return(handle_error(self, err), Ready_Err(err), issued, p,
                               PolicyArg(self, err))
               [] item.tag = "Ok" ->
                    Return(handle_event(self, item.event),
                           Ready_Ok(Event_Message(item.event)), issued, p, None)
               [] item.tag = "None" ->
                    LET err == "StreamEnded"
                    IN  Return(handle_error(self, err), Ready_Err(err), issued, p,
                               PolicyArg(self, err))
               [] item.tag = "Pending" ->
                    Return(self, Pending, issued, p, None)

\* the pending request with Open not reported for a valid response
poll_response_no_open(self, resp, item, issued, polled) ==
    IF IsSome(self.next_response)
    THEN LET p == polled \cup {"request"}
         IN  CASE resp.tag = "Ok" ->
                    LET s1 == clear_fetch(self)
                        checked == check_response(resp.res)
                    IN  IF checked # "Ok"
                        THEN Return([s1 EXCEPT !.is_closed = TRUE], Ready_Err(checked),
                                    issued, p, None)
                        ELSE Return(handle_response(s1, resp.res), Pending,
                                    issued, p, None)
               [] resp.tag = "Err" ->
                    Return(handle_error(self, "Transport"), Ready_Err("Transport"),
                           issued, p, PolicyArg(self, "Transport"))
               [] resp.tag = "Pending" ->
                    Return(self, Pending, issued, p, None)
    ELSE poll_stream(self, item, issued, polled)

\* poll_next, lines 225-245: the pending request, else on to the cursor
poll_response(self, resp, item, issued, polled) ==
    IF IsSome(self.next_response)
    THEN LET p == polled \cup {"request"}
         IN  CASE resp.tag = "Ok" ->
                    LET s1 == clear_fetch(self)
                        checked == check_response(resp.res)
                    IN  IF checked # "Ok"
                        THEN Return([s1 EXCEPT !.is_closed = TRUE], Ready_Err(checked),
                                    issued, p, None)
                        ELSE Return(handle_response(s1, resp.res), Ready_Ok(Event_Open),
                                    issued, p, None)
               [] resp.tag = "Err" ->
                    LET err == "Transport"
                    IN  Return(handle_error(self, err), Ready_Err(err), issued, p,
                               PolicyArg(self, err))
               [] resp.tag = "Pending" ->
                    Return(self, Pending, issued, p, None)
    ELSE poll_stream(self, item, issued, polled)

\* poll_next, lines 212-223: the delay, else on to the request
poll_delay(self, delay_ready, resp, item) ==
    IF IsSome(self.delay)
    THEN IF delay_ready
         THEN LET s1 == [self EXCEPT !.delay = None]
                  fetched == retry_fetch(s1)
              IN  IF fetched.result # "Ok"
                  THEN Return([fetched.self EXCEPT !.is_closed = TRUE],
                              Ready_Err(fetched.result), None, {"delay"}, None)
                  ELSE poll_response(fetched.self, resp, item,
                                     fetched.self.next_response, {"delay"})
         ELSE Return(self, Pending, None, {"delay"}, None)
    ELSE poll_response(self, resp, item, None, {})

\* poll_next without its first check
poll_next_unchecked(self, delay_ready, resp, item) ==
    poll_delay(self, delay_ready, resp, item)

\* Stream::poll_next, lines 205-210: closed, else on to the delay
poll_next(self, delay_ready, resp, item) ==
    IF self.is_closed
    THEN Return(self, Ready_None, None, {}, None)
    ELSE poll_delay(self, delay_ready, resp, item)

----------------------------------------------------------------------------
(* The state machine *)

Self ==
    [next_response |-> next_response,
     cur_stream    |-> cur_stream,
     delay         |-> delay,
     is_closed     |-> is_closed,
     retry_policy  |-> retry_policy,
     last_event_id |-> last_event_id,
     last_retry    |-> last_retry]

Becomes(self) ==
    /\ next_response' = self.next_response
    /\ cur_stream' = self.cur_stream
    /\ delay' = self.delay
    /\ is_closed' = self.is_closed
    /\ retry_policy' = self.retry_policy
    /\ last_event_id' = self.last_event_id
    /\ last_retry' = self.last_retry

Starts(self) ==
    /\ next_response = self.next_response
    /\ cur_stream = self.cur_stream
    /\ delay = self.delay
    /\ is_closed = self.is_closed
    /\ retry_policy = self.retry_policy
    /\ last_event_id = self.last_event_id
    /\ last_retry = self.last_retry

\* a response the validator is to accept: 200 with text/event-stream
Acceptable(res) ==
    /\ res.status = 200
    /\ \E c \in ContentTypes :
          /\ res.content_type = Some(c)
          /\ c.to_str
          /\ c.mime = Some(<<"text", "event-stream">>)

\* the failure the polled sub-operation answered with in this call (Option):
\* said of the environment's answers, not of what poll_next made of them
Detected(self, delay_ready, resp, item, polled) ==
    IF "delay" \in polled /\ delay_ready /\ HeaderValue_from_str(self.last_event_id) = None
    THEN Some("InvalidLastEventId")
    ELSE IF "request" \in polled
    THEN CASE resp.tag = "Err" -> Some("Transport")
           [] resp.tag = "Ok" /\ resp.res.status # 200 -> Some("InvalidStatusCode")
           [] resp.tag = "Ok" /\ resp.res.status = 200 /\ ~Acceptable(resp.res) ->
                Some("InvalidContentType")
           [] OTHER -> None
    ELSE IF "stream" \in polled
    THEN CASE item.tag = "Err" -> Some(item.err)
           [] item.tag = "None" -> Some("StreamEnded")
           [] OTHER -> None
    ELSE None

NotPolled ==
    [ret |-> [tag |-> "NotPolled"], issued |-> None, polled |-> {},
     policy_arg |-> None, detected |-> None, yielded |-> None, received |-> None]

\* the state after EventSource::new, and set_retry_policy when the caller
\* installs a policy before the first poll
InitWith(policy, trace) ==
    /\ Starts(set_retry_policy(EventSource_new, policy))
    /\ last_call = "new"
    /\ last_poll = NotPolled
    /\ last_ready_state = None
    /\ wakers = {}
    /\ awake = TRUE
    /\ delays = <<>>
    /\ tracing = trace
    /\ body = <<>>
    /\ output = <<>>

Init == InitWith(DEFAULT_RETRY, {})

\* the policies a caller installs
Policies ==
    {DEFAULT_RETRY,
     ExponentialBackoff(300, <<2, 1>>, 5000, Some(2)),
     Constant(1000, Some(1)),
     Never,
     AlwaysRetry(1000)}

\* One call of poll_next, the sub-operations answering delay_ready, resp and
\* item when they are polled, the body yielding events of `events`. Only a
\* sub-operation that exists, or that this call may create (the request,
\* when a delay is there to elapse), answers.
Poll(events) ==
    \E delay_ready \in (IF IsSome(delay) THEN BOOLEAN ELSE {FALSE}),
       resp \in (IF IsSome(next_response) \/ IsSome(delay)
                 THEN ResponseOutcomes ELSE {[tag |-> "Pending"]}),
       item \in (IF IsSome(cur_stream) THEN StreamOutcomes(events)
                 ELSE {[tag |-> "Pending"]}) :
        LET r == poll_next(Self, delay_ready, resp, item)
            opened == r.ret = Ready_Ok(Event_Open)
            scheduled == IsSome(r.policy_arg) /\ IsSome(r.self.delay)
            yielded == IF "stream" \in r.polled /\ item.tag = "Ok"
                       THEN Some(item.event) ELSE None
            received == IF "request" \in r.polled /\ resp.tag = "Ok"
                        THEN Some(resp.res) ELSE None
        IN  /\ Becomes(r.self)
            /\ last_call' = "poll_next"
            /\ last_ready_state' = None
            /\ UNCHANGED <<wakers, awake>>
            /\ last_poll' = [ret |-> r.ret, issued |-> r.issued, polled |-> r.polled,
                             policy_arg |-> r.policy_arg,
                             detected |-> Detected(Self, delay_ready, resp, item, r.polled),
                             yielded |-> yielded, received |-> received]
            /\ delays' = IF "delays" \notin tracing THEN delays
                         ELSE IF opened THEN <<>>
                         ELSE IF scheduled THEN Append(delays, Unwrap(r.self.delay))
                         ELSE delays
            /\ Len(delays') <= MaxDelays
            /\ tracing' = tracing
            /\ body' = IF "output" \notin tracing THEN body
                       ELSE IF opened THEN <<>>
                       ELSE IF IsSome(yielded) THEN Append(body, Unwrap(yielded))
                       ELSE body
            /\ Len(body') <= MaxMessages
            /\ output' = IF "output" \notin tracing \/ r.ret = Pending THEN output
                         ELSE IF r.ret = Ready_None /\ output # <<>>
                                 /\ output[Len(output)] = Ready_None THEN output
                         ELSE Append(output, r.ret)
            /\ Len(output') <= MaxOutput

\* EventSource::close
Close ==
    /\ Becomes(close(Self))
    /\ last_call' = "close"
    /\ last_ready_state' = None
    /\ UNCHANGED <<wakers, awake>>
    /\ UNCHANGED <<last_poll, delays, tracing, body, output>>

\* EventSource::set_retry_policy
SetRetryPolicy ==
    \E policy \in Policies :
        /\ Becomes(set_retry_policy(Self, policy))
        /\ last_call' = "set_retry_policy"
        /\ last_ready_state' = None
        /\ UNCHANGED <<wakers, awake>>
        /\ UNCHANGED <<last_poll, delays, tracing, body, output>>

\* EventSource::ready_state
ReadyState ==
    /\ last_call' = "ready_state"
    /\ last_ready_state' = Some(ready_state(Self))
    /\ UNCHANGED <<next_response, cur_stream, delay, is_closed, retry_policy,
                   last_event_id, last_retry, last_poll, wakers, awake, delays,
                   tracing, body, output>>

Next == Poll(MessageEvents) \/ Close \/ SetRetryPolicy \/ ReadyState

Spec == Init /\ [][Next]_vars

----------------------------------------------------------------------------
(* One policy, installed before the first poll and kept *)

\* the body yields events that carry neither an id nor a retry hint
PlainEvents == {[id |-> <<>>, retry |-> None]}

NextPolicy == Poll(PlainEvents) \/ Close

\* the configurations of the two bounded policies
StartDurations == {1, 2, 3}

Factors == {<<1, 2>>, <<1, 1>>, <<3, 2>>, <<2, 1>>}

MaxDurations == {2, 5}

MaxRetries == {None} \cup {Some(n) : n \in 0..MaxRetriesBound}

BoundedPolicies ==
    {ExponentialBackoff(s, f, m, n) :
        s \in StartDurations, f \in Factors, m \in MaxDurations, n \in MaxRetries}
    \cup {Constant(d, n) : d \in StartDurations, n \in MaxRetries}

InitPolicy == \E policy \in BoundedPolicies : InitWith(policy, {"delays"})

SpecPolicy == InitPolicy /\ [][NextPolicy]_vars

\* Never, with the output recorded
InitNever == InitWith(Never, {"output"})

NextNever == Poll(MessageEvents) \/ Close

SpecNever == InitNever /\ [][NextNever]_vars

\* The default policy or Constant with one retry, installed before the first
\* poll and kept, with the delays and the output recorded
OutputEvents == [id : {<<>>, <<55>>}, retry : {None}]

OutputPolicies == {DEFAULT_RETRY} \cup {Constant(d, Some(1)) : d \in StartDurations}

InitOutput == \E policy \in OutputPolicies : InitWith(policy, {"delays", "output"})

NextOutput == Poll(OutputEvents) \/ Close

SpecOutput == InitOutput /\ [][NextOutput]_vars

----------------------------------------------------------------------------
(* EventsourceRequestBuilder: src/src/lib.rs, the stream without a retry   *)
(* policy. It has the fields next_response and cur_stream only; its items  *)
(* are the parser's events and errors as they come.                        *)

\* self.builder.try_clone().unwrap().send(): the request as the caller built it
builder_send == [accept |-> None, last_event_id |-> None]

EventsourceRequestBuilder_new ==
    [next_response |-> Some(builder_send), cur_stream |-> None]

\* What a call gives: the struct afterwards, the value returned, the request
\* it issued (Option) and the sub-operations it polled.
BuilderReturn(self, ret, issued, polled) ==
    [self |-> self, ret |-> ret, issued |-> issued, polled |-> polled]

\* poll_next, lines 118-135: the event stream
builder_poll_stream(self, item, polled) ==
    IF self.cur_stream = None
    THEN BuilderReturn(self, Panic, None, polled)
    ELSE LET p == polled \cup {"stream"}
             reissued == [self EXCEPT !.cur_stream = None,
                                      !.next_response = Some(builder_send)]
         IN  CASE item.tag = "Err" ->
                    IF item.err = "Transport"
                    THEN BuilderReturn(reissued, Ready_Err(item.err), Some(builder_send), p)
                    ELSE BuilderReturn(self, Ready_Err(item.err), None, p)
               [] item.tag = "Ok" ->
                    BuilderReturn(self, Ready_Ok(item.event), None, p)
               [] item.tag = "None" ->
                    BuilderReturn(reissued, Pending, Some(builder_send), p)
               [] item.tag = "Pending" ->
                    BuilderReturn(self, Pending, None, p)

\* Stream::poll_next of EventsourceRequestBuilder, lines 99-136
EventsourceRequestBuilder_poll_next(self, resp, item) ==
    IF IsSome(self.next_response)
    THEN CASE resp.tag = "Ok" ->
                builder_poll_stream(
                    [self EXCEPT !.next_response = None,
                                 !.cur_stream = Some([last_event_id |-> <<>>])],
                    item, {"request"})
           [] resp.tag = "Err" ->
                BuilderReturn([self EXCEPT !.next_response = Some(builder_send)],
                              Ready_Err("Transport"), Some(builder_send), {"request"})
           [] resp.tag = "Pending" ->
                BuilderReturn(self, Pending, None, {"request"})
    ELSE builder_poll_stream(self, item, {})

BuilderSelf == [next_response |-> next_response, cur_stream |-> cur_stream]

\* the state after EventsourceRequestBuilder::new, the consumer's task about
\* to poll; the fields of EventSource are not there and stay as they are
InitBuilder ==
    /\ next_response = EventsourceRequestBuilder_new.next_response
    /\ cur_stream = EventsourceRequestBuilder_new.cur_stream
    /\ delay = None
    /\ is_closed = FALSE
    /\ retry_policy = Never
    /\ last_event_id = <<>>
    /\ last_retry = None
    /\ last_call = "new"
    /\ last_poll = [ret |-> [tag |-> "NotPolled"], issued |-> None, polled |-> {}]
    /\ last_ready_state = None
    /\ wakers = {}
    /\ awake = TRUE
    /\ delays = <<>>
    /\ tracing = {"output"}
    /\ body = <<>>
    /\ output = <<>>

\* The consumer's task, scheduled, calls poll_next. A sub-operation that is
\* polled and answers Pending keeps the task's waker; when the call returns
\* Pending the task sleeps until a waker is used, and when it returns an
\* item the consumer takes it and polls again.
BuilderPoll ==
    /\ awake
    /\ \E resp \in (IF IsSome(next_response) THEN ResponseOutcomes
                    ELSE {[tag |-> "Pending"]}) :
       \E item \in (IF IsSome(cur_stream) \/ (IsSome(next_response) /\ resp.tag = "Ok")
                    THEN StreamOutcomes(PlainEvents) ELSE {[tag |-> "Pending"]}) :
          LET r == EventsourceRequestBuilder_poll_next(BuilderSelf, resp, item)
          IN  /\ next_response' = r.self.next_response
              /\ cur_stream' = r.self.cur_stream
              /\ last_call' = "poll_next"
              /\ last_poll' = [ret |-> r.ret, issued |-> r.issued, polled |-> r.polled]
              /\ wakers' = (IF "request" \in r.polled /\ resp.tag = "Pending"
                            THEN {"request"} ELSE {})
                           \cup (IF "stream" \in r.polled /\ item.tag = "Pending"
                                 THEN {"stream"} ELSE {})
              /\ awake' = (r.ret # Pending)
              /\ output' = IF r.ret = Pending THEN output ELSE Append(output, r.ret)
              /\ Len(output') <= MaxOutput
    /\ UNCHANGED <<delay, is_closed, retry_policy, last_event_id, last_retry,
                   last_ready_state, delays, tracing, body>>

\* A sub-operation that holds the waker makes progress and wakes the task.
Wake ==
    /\ ~awake
    /\ wakers # {}
    /\ awake' = TRUE
    /\ wakers' = {}
    /\ last_call' = "wake"
    /\ UNCHANGED <<next_response, cur_stream, delay, is_closed, retry_policy,
                   last_event_id, last_retry, last_poll, last_ready_state, delays,
                   tracing, body, output>>

NextBuilder == BuilderPoll \/ Wake

SpecBuilder == InitBuilder /\ [][NextBuilder]_vars

----------------------------------------------------------------------------
(* Properties *)

Occupied == {slot \in {"next_response", "cur_stream", "delay"} : IsSome(Self[slot])}

Polled == last_call = "poll_next"

\* C1: in every reachable state at most one of the slots next_response,
\* cur_stream and delay is occupied.
C1_AtMostOneSlot == Cardinality(Occupied) <= 1

\* C1 witness: a poll of the event cursor met a failure and scheduled a
\* delay, and the delay is the only slot occupied.
C1_Witness ==
    /\ Polled
    /\ "stream" \in last_poll.polled
    /\ Occupied = {"delay"}

\* C2: closed is absorbing. From a closed state is_closed stays set, no slot
\* changes (so no request is issued and nothing is scheduled), and a call of
\* poll_next returns end-of-sequence, having polled nothing, issued nothing
\* and detected nothing.
C2_ClosedAbsorbing ==
    [][is_closed =>
          /\ is_closed'
          /\ next_response' = next_response
          /\ cur_stream' = cur_stream
          /\ delay' = delay
          /\ last_event_id' = last_event_id
          /\ last_call' = "poll_next" =>
                /\ last_poll'.ret = Ready_None
                /\ last_poll'.issued = None
                /\ last_poll'.polled = {}
                /\ last_poll'.detected = None]_vars

\* C2 witness: close() was called while the request was pending, and the
\* poll after it returned end-of-sequence with the request still in its slot.
C2_Witness ==
    /\ is_closed
    /\ Polled
    /\ last_poll.ret = Ready_None
    /\ IsSome(next_response)

NonRetryable == {"InvalidStatusCode", "InvalidContentType", "Utf8", "Parser"}

BuiltIn == {"ExponentialBackoff", "Constant", "Never"}

\* the latest poll reported `kind` and left the stream closed with every slot
\* empty: nothing is scheduled
ClosedAtOnce(kind) ==
    /\ last_poll.ret = Ready_Err(kind)
    /\ is_closed
    /\ Occupied = {}

Bounded == retry_policy.kind \in {"ExponentialBackoff", "Constant"}

Retryable == {"Transport", "StreamEnded"}

\* the latest call was a poll that met a retryable failure and asked the policy
FailedRetryable ==
    /\ Polled
    /\ IsSome(last_poll.policy_arg)
    /\ Unwrap(last_poll.policy_arg).error \in Retryable

\* C4 as claimed: with max_retries = Some(n), of the retryable failures that
\* follow one another with no Open between, the first n each schedule a retry
\* and the next one schedules none and closes the stream.
C4_ExactlyMaxRetries ==
    Bounded /\ IsSome(retry_policy.max_retries) =>
        LET n == Unwrap(retry_policy.max_retries)
        IN  /\ Len(delays) <= n
            /\ FailedRetryable /\ is_closed => Len(delays) = n

\* C5 as claimed: a Message with an empty id leaves last_event_id as it was,
\* and a request issued carries last_event_id.
C5_EmptyIdKeepsLastEventId ==
    [][last_call' = "poll_next" =>
          /\ (IsSome(last_poll'.yielded) /\ Unwrap(last_poll'.yielded).id = <<>>)
                => last_event_id' = last_event_id
          /\ IsSome(last_poll'.issued)
                => Unwrap(last_poll'.issued).last_event_id = Some(last_event_id')]_vars

\* What handle_event does instead: last_event_id is set to the id of every
\* Message reported, empty or not; nothing else changes it; and the request
\* issued when a delay elapses carries the last_event_id of that moment.
LastEventIdFollowsMessages ==
    /\ [](Polled /\ IsSome(last_poll.yielded)
            => /\ last_poll.ret = Ready_Ok(Event_Message(Unwrap(last_poll.yielded)))
               /\ last_event_id = Unwrap(last_poll.yielded).id)
    /\ [](Polled /\ IsSome(last_poll.issued)
            => Unwrap(last_poll.issued).last_event_id = Some(last_event_id))
    /\ [][last_event_id' # last_event_id
            => last_call' = "poll_next" /\ IsSome(last_poll'.yielded)]_vars

\* The body was opened when last_event_id was "42", and a Message with an
\* empty id has just reset it.
EmptyIdErasedLastEventId ==
    /\ Polled
    /\ IsSome(last_poll.yielded)
    /\ Unwrap(last_poll.yielded).id = <<>>
    /\ cur_stream = Some([last_event_id |-> <<52, 50>>])
    /\ last_event_id = <<>>

\* the delay a policy answers the first failure with
FirstDelay(policy) ==
    CASE policy.kind = "ExponentialBackoff" -> policy.start
      [] policy.kind \in {"Constant", "AlwaysRetry"} -> policy.delay

\* C6: when Open is reported last_retry is empty, it stays empty while the
\* body is consumed, and the failure that ends the body is put to the policy
\* with no retry state: the delay scheduled is the policy's first delay.
C6_OpenClearsRetryHistory ==
    /\ [](Polled /\ last_poll.ret = Ready_Ok(Event_Open) => last_retry = None)
    /\ [](IsSome(cur_stream) => last_retry = None)
    /\ [][(/\ IsSome(cur_stream)
           /\ ~is_closed
           /\ last_call' = "poll_next"
           /\ IsSome(last_poll'.policy_arg))
          => /\ Unwrap(last_poll'.policy_arg).last_retry = None
             /\ IsSome(delay') => delay' = Some(FirstDelay(retry_policy))]_vars

\* C6 witness: Open was reported for a request that this same poll issued
\* when a retry delay elapsed, and the retry history is gone.
C6_Witness ==
    /\ Polled
    /\ last_poll.ret = Ready_Ok(Event_Open)
    /\ IsSome(last_poll.issued)
    /\ last_retry = None

NonDecreasing(seq) == \A i \in 1..(Len(seq) - 1) : seq[i] <= seq[i + 1]

AtMost(seq, max) == \A i \in 1..Len(seq) : seq[i] <= max

\* C7 as claimed: for every ExponentialBackoff the delays of consecutive
\* retryable failures are non-decreasing and at most max_duration, and the
\* first is start.
C7_BackoffMonotoneAndCapped ==
    retry_policy.kind = "ExponentialBackoff" =>
        /\ NonDecreasing(delays)
        /\ AtMost(delays, retry_policy.max_duration)
        /\ delays # <<>> => delays[1] = retry_policy.start

\* C7 amended: the first delay is start, and every later one is at most
\* max_duration; when start <= max_duration and factor >= 1 the delays are
\* non-decreasing and all at most max_duration.
C7_BackoffWhenStartFits ==
    retry_policy.kind = "ExponentialBackoff" =>
        /\ delays # <<>> => delays[1] = retry_policy.start
        /\ \A i \in 2..Len(delays) : delays[i] <= retry_policy.max_duration
        /\ (/\ retry_policy.start <= retry_policy.max_duration
            /\ retry_policy.factor[1] >= retry_policy.factor[2])
           => /\ NonDecreasing(delays)
              /\ AtMost(delays, retry_policy.max_duration)

\* C7 witness: start 1, factor 2, max_duration 5 gave the delays 1, 2, 4, 5.
C7_Witness ==
    /\ retry_policy.kind = "ExponentialBackoff"
    /\ retry_policy.factor = <<2, 1>>
    /\ delays = <<1, 2, 4, 5>>

\* C8: a failure the polled sub-operation answers with is returned by that
\* call as the error item of its kind, retry or no retry, and the
\* sub-operation that failed is dropped; and an error item is returned only
\* for a failure met in that call.
C8_EveryFailureReported ==
    /\ Polled /\ IsSome(last_poll.detected) =>
          /\ last_poll.ret = Ready_Err(Unwrap(last_poll.detected))
          /\ next_response = None
          /\ cur_stream = None
    /\ Polled /\ last_poll.ret.tag = "Err" =>
          last_poll.detected = Some(last_poll.ret.error)

\* C8 witness: the body ended cleanly, a retry was scheduled, and the poll
\* returned the StreamEnded error all the same.
C8_Witness ==
    /\ Polled
    /\ last_poll.detected = Some("StreamEnded")
    /\ last_poll.ret = Ready_Err("StreamEnded")
    /\ IsSome(delay)
    /\ ~is_closed

\* C9: a step in which a request appears in next_response, or in which
\* poll_next issues one, starts with the delay as the only occupied slot, and
\* is a poll that polled the delay (which had elapsed); a poll that finds the
\* delay not elapsed polls nothing else and leaves it in place.
C9_RequestOnlyWhenDelayElapses ==
    /\ [][(\/ IsSome(next_response') /\ next_response' # next_response
           \/ last_call' = "poll_next" /\ IsSome(last_poll'.issued))
          => /\ ~is_closed
             /\ Occupied = {"delay"}
             /\ last_call' = "poll_next"
             /\ "delay" \in last_poll'.polled
             /\ IsSome(last_poll'.issued)
             /\ IsSome(delay') => IsSome(last_poll'.policy_arg)]_vars
    /\ [][(~is_closed /\ IsSome(delay) /\ last_call' = "poll_next"
              /\ last_poll'.issued = None /\ last_poll'.detected = None)
          => /\ last_poll'.ret = Pending
             /\ last_poll'.polled = {"delay"}
             /\ delay' = delay
             /\ next_response' = None]_vars

\* C9 witness: the delay elapsed, the poll issued the request, and the
\* request is now pending.
C9_Witness ==
    /\ Polled
    /\ IsSome(last_poll.issued)
    /\ next_response = last_poll.issued
    /\ last_poll.ret = Pending
    /\ delay = None

\* the items of a connection that opened, yielded `events` and ended cleanly
\* under Never
Messages(events) == [i \in 1..Len(events) |-> Ready_Ok(Event_Message(events[i]))]

OpenedAndEnded(events) ==
    <<Ready_Ok(Event_Open)>> \o Messages(events) \o <<Ready_Err("StreamEnded")>>

IsPrefix(seq, of) == Len(seq) <= Len(of) /\ \A i \in 1..Len(seq) : seq[i] = of[i]

\* C10: under Never no request but the first is ever issued and no delay is
\* ever scheduled; when the body has yielded its events and ended cleanly the
\* output is Open, the Messages in order and one StreamEnded error, the
\* stream is closed, and all that can follow is end-of-sequence; a transport
\* failure closes the stream in the poll that meets it.
C10_NeverReconnects ==
    /\ delay = None
    /\ last_poll.issued = None
    /\ next_response \in {None, Some(Request(None))}
    /\ Ready_Err("StreamEnded") \in {output[i] : i \in 1..Len(output)} =>
          /\ is_closed
          /\ \/ output = OpenedAndEnded(body)
             \/ output = OpenedAndEnded(body) \o <<Ready_None>>
    /\ Polled /\ last_poll.detected = Some("Transport") =>
          /\ is_closed
          /\ Occupied = {}
          /\ output[Len(output)] = Ready_Err("Transport")

\* C10 witness: Open, two Messages, StreamEnded, and then end-of-sequence.
C10_Witness ==
    /\ Len(body) = 2
    /\ body[1] # body[2]
    /\ output = OpenedAndEnded(body) \o <<Ready_None>>
    /\ is_closed

\* from a closed state a call of poll_next returns end-of-sequence
ClosedGivesNone ==
    is_closed /\ last_call' = "poll_next" => last_poll'.ret = Ready_None

\* C11: Open is reported exactly for a received response that has status 200
\* and a content-type header of type text/event-stream. For any other
\* response the status is judged first (not 200 gives InvalidStatusCode
\* whatever the content type), that error is what the poll returns, the
\* policy is not asked, nothing is scheduled, the stream is closed, and the
\* polls that follow return end-of-sequence.
C11_OpenIffValidResponse ==
    /\ [](Polled /\ IsSome(last_poll.received) =>
            LET res == Unwrap(last_poll.received)
            IN  /\ last_poll.ret = Ready_Ok(Event_Open) <=> Acceptable(res)
                /\ res.status # 200 => last_poll.ret = Ready_Err("InvalidStatusCode")
                /\ res.status = 200 /\ ~Acceptable(res) =>
                      last_poll.ret = Ready_Err("InvalidContentType")
                /\ ~Acceptable(res) =>
                      /\ last_poll.policy_arg = None
                      /\ is_closed
                      /\ Occupied = {})
    /\ [](Polled /\ last_poll.ret = Ready_Ok(Event_Open) => IsSome(last_poll.received))
    /\ [][ClosedGivesNone]_vars

\* C11 witness: a 404 response of content type text/plain was reported as
\* InvalidStatusCode and the stream is closed.
C11_Witness ==
    /\ Polled
    /\ IsSome(last_poll.received)
    /\ Unwrap(last_poll.received).status = 404
    /\ Unwrap(last_poll.received).content_type
          = Some([to_str |-> TRUE, mime |-> Some(<<"text", "plain">>)])
    /\ last_poll.ret = Ready_Err("InvalidStatusCode")
    /\ is_closed

IsErr(item) == item.tag = "Err"

\* the latest call was a poll that returned the last item of the output
Returned(item) ==
    /\ Polled
    /\ last_poll.ret = item
    /\ output # <<>>
    /\ output[Len(output)] = item

\* C12: under Constant with max_retries = Some(1), a transport failure that
\* follows no other error item since construction or the last Open is
\* reported and schedules a retry with the configured delay; a transport
\* failure reported right after another error item schedules nothing and
\* closes the stream; so two error items in a row are followed by nothing
\* but end-of-sequence.
C12_ConstantOneRetry ==
    (retry_policy.kind = "Constant" /\ retry_policy.max_retries = Some(1)) =>
        LET n == Len(output)
        IN  /\ Returned(Ready_Err("Transport")) =>
                  IF n >= 2 /\ IsErr(output[n - 1])
                  THEN /\ is_closed
                       /\ Occupied = {}
                       /\ delays = <<retry_policy.delay>>
                  ELSE /\ ~is_closed
                       /\ Occupied = {"delay"}
                       /\ delay = Some(retry_policy.delay)
                       /\ delays = <<retry_policy.delay>>
            /\ \A i \in 1..(n - 2) :
                  IsErr(output[i]) /\ IsErr(output[i + 1]) =>
                      /\ i + 2 = n
                      /\ output[i + 2] = Ready_None
            /\ Len(delays) <= 1

\* C12 witness: two transport failures of connection attempts, one retry of
\* the configured delay between them, and then end-of-sequence.
C12_Witness ==
    /\ retry_policy = Constant(2, Some(1))
    /\ output = <<Ready_Err("Transport"), Ready_Err("Transport"), Ready_None>>
    /\ delays = <<2>>
    /\ is_closed

\* the installed policy is ExponentialBackoff with max_retries = None
Unbounded == retry_policy.kind = "ExponentialBackoff" /\ retry_policy.max_retries = None

\* a retryable failure met while an unbounded backoff is installed is reported
\* and leaves the stream open with a delay scheduled
RetryableKeepsOpen ==
    Polled /\ Unbounded /\ IsSome(last_poll.detected)
       /\ Unwrap(last_poll.detected) \in Retryable
    => /\ last_poll.ret = Ready_Err(Unwrap(last_poll.detected))
       /\ ~is_closed
       /\ Occupied = {"delay"}

\* the poll found the delay not elapsed
DelayPending ==
    /\ last_poll'.ret = Pending
    /\ last_poll'.polled = {"delay"}
    /\ delay' = delay

\* C13 as claimed: under ExponentialBackoff with max_retries = None every
\* retryable failure leaves the stream open with a delay scheduled, and a
\* poll that finds the delay elapsed issues a new request.
C13_AlwaysReconnects ==
    /\ [](last_call = "new" => Unbounded)
    /\ []RetryableKeepsOpen
    /\ [][Unbounded /\ ~is_closed /\ IsSome(delay) /\ last_call' = "poll_next"
          => DelayPending \/ IsSome(last_poll'.issued)]_vars

\* C13 amended: the policy installed by new is ExponentialBackoff with
\* max_retries = None, and while such a policy is installed: a transport
\* failure or a clean end of the body is reported and leaves the stream open
\* with a delay scheduled; the stream is closed only by close() or by a poll
\* that met a failure that is not retryable; and a poll that finds the delay
\* elapsed issues a new request unless last_event_id cannot be encoded as a
\* header value, in which case it reports InvalidLastEventId.
C13_ReconnectsWhileIdEncodes ==
    /\ [](last_call = "new" => Unbounded)
    /\ []RetryableKeepsOpen
    /\ [][Unbounded /\ ~is_closed /\ is_closed'
          => \/ last_call' = "close"
             \/ /\ last_call' = "poll_next"
                /\ IsSome(last_poll'.detected)
                /\ Unwrap(last_poll'.detected) \notin Retryable]_vars
    /\ [][Unbounded /\ ~is_closed /\ IsSome(delay) /\ last_call' = "poll_next"
          => \/ DelayPending
             \/ IsSome(last_poll'.issued)
             \/ /\ last_poll'.detected = Some("InvalidLastEventId")
                /\ HeaderValue_from_str(last_event_id) = None]_vars

\* C13 witness: under the default policy a connection attempt failed after
\* the delays had grown from 300 ms to the cap of 5 s, and once more a delay
\* is scheduled and the stream is not closed.
C13_Witness ==
    /\ Polled
    /\ retry_policy = DEFAULT_RETRY
    /\ last_poll.detected = Some("Transport")
    /\ last_poll.policy_arg = Some([error |-> "Transport", last_retry |-> Some(<<1, 5000>>)])
    /\ delay = Some(5000)
    /\ ~is_closed

\* C14: what ready_state() returns is decided by is_closed and the slots, in
\* every state it can be called in: Closed exactly when is_closed is set,
\* Connecting exactly when the stream is not closed and a request or a delay
\* is outstanding, Open exactly when the stream is not closed and the event
\* cursor of a validated response is outstanding.
C14_ReadyStateOfSlots ==
    last_call = "ready_state" =>
        LET state == Unwrap(last_ready_state)
        IN  /\ state \in {"Closed", "Connecting", "Open"}
            /\ state = "Closed" <=> is_closed
            /\ state = "Connecting" <=>
                  ~is_closed /\ (IsSome(next_response) \/ IsSome(delay))
            /\ state = "Open" <=> ~is_closed /\ IsSome(cur_stream)

\* C14 witness: ready_state() was called while a retry delay was outstanding
\* and returned Connecting.
C14_Witness ==
    /\ last_call = "ready_state"
    /\ last_ready_state = Some("Connecting")
    /\ IsSome(delay)
    /\ ~is_closed

IsMessage(item) == item.tag = "Ok" /\ item.event.tag = "Message"

\* C15: in the output a Message comes right after an Open or another
\* Message, so every Message has an Open before it with only Messages
\* between, and none comes between an error item and the next Open; an Open
\* is the first item or comes right after an error item; Open is returned by
\* a poll exactly when that poll received a valid response; and while a
\* connection is open the output ends with its Open and the Messages of the
\* events its body has yielded, in order.
C15_MessagesFollowTheirOpen ==
    /\ \A i \in 1..Len(output) :
          /\ IsMessage(output[i]) => i > 1 /\ output[i - 1].tag = "Ok"
          /\ output[i] = Ready_Ok(Event_Open) => i = 1 \/ IsErr(output[i - 1])
    /\ Polled /\ IsSome(last_poll.received) /\ Acceptable(Unwrap(last_poll.received))
          => Returned(Ready_Ok(Event_Open))
    /\ Returned(Ready_Ok(Event_Open))
          => IsSome(last_poll.received) /\ Acceptable(Unwrap(last_poll.received))
    /\ ~is_closed /\ IsSome(cur_stream) =>
          LET k == Len(output) - Len(body)
          IN  /\ k >= 1
              /\ output[k] = Ready_Ok(Event_Open)
              /\ \A j \in 1..Len(body) : output[k + j] = Ready_Ok(Event_Message(body[j]))

\* C15 witness: Open, a Message, the clean end of the body, and after the
\* retry Open again and a Message of the second connection.
C15_Witness ==
    /\ Len(output) = 5
    /\ output[1] = Ready_Ok(Event_Open)
    /\ IsMessage(output[2])
    /\ output[3] = Ready_Err("StreamEnded")
    /\ output[4] = Ready_Ok(Event_Open)
    /\ IsMessage(output[5])
    /\ output[5] # output[2]

\* C16 as claimed: the policy is asked with no retry state on the first
\* failure after construction or after Open, and otherwise with the number
\* of retries scheduled in a row since then and the delay of the latest one.
C16_RetryStateCountsRetries ==
    [][last_call' = "poll_next" /\ IsSome(last_poll'.policy_arg) =>
          Unwrap(last_poll'.policy_arg).last_retry =
              IF delays = <<>> THEN None
              ELSE Some(<<Len(delays), delays[Len(delays)]>>)]_vars

\* C17 as claimed: the request sent by new carries no last-event-id header,
\* and a request issued later carries it only if a non-empty id has been
\* observed, its value being last_event_id. Where the bodies yield no id,
\* none has been observed and last_event_id is empty, so no request issued
\* may carry the header.
C17_HeaderOnlyWithObservedId ==
    /\ last_call = "new" => next_response = Some(Request(None))
    /\ Polled /\ IsSome(last_poll.issued) =>
          LET header == Unwrap(last_poll.issued).last_event_id
          IN  IsSome(header) =>
                  /\ Unwrap(header) = last_event_id
                  /\ last_event_id # <<>>

\* C18: a poll that finds the delay elapsed while last_event_id has no
\* encoding as a header value returns the InvalidLastEventId error (it does
\* not panic), issues no request, does not ask the policy, and leaves the
\* stream closed with the three slots empty; a poll started with a delay and
\* such an id either does that or finds the delay pending; no poll ever
\* panics; and from the closed state polls return end-of-sequence.
C18_UnencodableIdCloses ==
    /\ [](Polled /\ last_poll.detected = Some("InvalidLastEventId") =>
            /\ last_poll.ret = Ready_Err("InvalidLastEventId")
            /\ last_poll.polled = {"delay"}
            /\ last_poll.issued = None
            /\ last_poll.policy_arg = None
            /\ Occupied = {}
            /\ is_closed)
    /\ [](last_poll.ret # Panic)
    /\ [][(/\ ~is_closed
           /\ IsSome(delay)
           /\ HeaderValue_from_str(last_event_id) = None
           /\ last_call' = "poll_next")
          => \/ DelayPending
             \/ /\ last_poll'.ret = Ready_Err("InvalidLastEventId")
                /\ last_poll'.issued = None
                /\ next_response' = None
                /\ is_closed']_vars
    /\ [][is_closed /\ HeaderValue_from_str(last_event_id) = None
             /\ last_call' = "poll_next"
          => last_poll'.ret = Ready_None /\ last_poll'.issued = None]_vars

\* C18 witness: the id "\x01" was received, the body failed, the delay
\* elapsed, and the poll returned InvalidLastEventId and closed the stream.
C18_Witness ==
    /\ Polled
    /\ last_event_id = <<1>>
    /\ last_poll.ret = Ready_Err("InvalidLastEventId")
    /\ last_poll.polled = {"delay"}
    /\ Occupied = {}
    /\ is_closed

\* C19: the poll that yields an event returns it as a Message, and if the
\* event carries a retry hint the installed policy has been given it by the
\* end of that poll (for ExponentialBackoff and Constant the delay they answer
\* a first failure with is then the hint), while an event without a hint
\* leaves the policy as it was; the policy changes in no other way but
\* set_retry_policy; so the failure that ends the connection is answered by
\* the policy as the hints have left it.
C19_HintForwardedAtOnce ==
    /\ [][last_call' = "poll_next" /\ IsSome(last_poll'.yielded) =>
            LET event == Unwrap(last_poll'.yielded)
            IN  /\ last_poll'.ret = Ready_Ok(Event_Message(event))
                /\ IF IsSome(event.retry)
                   THEN /\ retry_policy' = set_reconnection_time(retry_policy,
                                                                 Unwrap(event.retry))
                        /\ retry_policy.kind \in {"ExponentialBackoff", "Constant"}
                              => FirstDelay(retry_policy') = Unwrap(event.retry)
                   ELSE retry_policy' = retry_policy]_vars
    /\ [][retry_policy' # retry_policy =>
            \/ last_call' = "set_retry_policy"
            \/ /\ last_call' = "poll_next"
               /\ IsSome(last_poll'.yielded)
               /\ IsSome(Unwrap(last_poll'.yielded).retry)]_vars
    /\ [][(/\ IsSome(cur_stream)
           /\ ~is_closed
           /\ retry_policy.kind \in {"ExponentialBackoff", "Constant"}
           /\ last_call' = "poll_next"
           /\ IsSome(last_poll'.policy_arg)
           /\ IsSome(delay'))
          => delay' = Some(FirstDelay(retry_policy))]_vars

\* C19 witness: under the default policy, whose start is 300 ms, a Message
\* with a retry hint of 1000 ms has just been reported and the policy's start
\* is 1000 ms.
C19_Witness ==
    /\ Polled
    /\ IsSome(last_poll.yielded)
    /\ Unwrap(last_poll.yielded).retry = Some(1000)
    /\ last_poll.ret = Ready_Ok(Event_Message(Unwrap(last_poll.yielded)))
    /\ retry_policy = ExponentialBackoff(1000, <<2, 1>>, 5000, None)

\* C20: in every state in which is_closed is not set exactly one of the
\* three slots is occupied; so a poll that gets past the delay and the
\* request (it polled neither, or the request it found was none) has a
\* cursor to poll, and no call of poll_next panics on the unwrap of
\* cur_stream.
C20_ExactlyOneSlotWhileOpen ==
    /\ ~is_closed => Cardinality(Occupied) = 1
    /\ ~is_closed /\ delay = None /\ next_response = None => IsSome(cur_stream)
    /\ last_poll.ret # Panic
    /\ Polled /\ "stream" \in last_poll.polled => last_poll.polled = {"stream"}

\* C20 witness: a poll found neither a delay nor a request, polled the event
\* cursor, which was pending, and the cursor is the one slot occupied.
C20_Witness ==
    /\ Polled
    /\ last_poll.polled = {"stream"}
    /\ last_poll.ret = Pending
    /\ ~is_closed
    /\ Occupied = {"cur_stream"}

\* C21 as claimed: when poll_next of EventsourceRequestBuilder returns
\* Pending, the sub-operation outstanding at return (the request, or the
\* event stream) was polled in that call and holds the task's waker, so the
\* sleeping task will be woken.
C21_PendingRegistersWaker ==
    Polled /\ last_poll.ret = Pending =>
        /\ IsSome(next_response) => "request" \in last_poll.polled /\ "request" \in wakers
        /\ IsSome(cur_stream) => "stream" \in last_poll.polled /\ "stream" \in wakers

====
